---- MODULE Spec2Model ----
(***************************************************************************)
(* Model of src/c/proj_wrapper.c: the entry point epsg4979_from_epsg9705,  *)
(* run by several caller threads against the PROJ engine.  Each thread     *)
(* steps through the function's statements; the engine is the environment: *)
(* it hands out context and transformation handles, may fail to create     *)
(* either, and may flag a fault on the forward transform.                  *)
(*                                                                         *)
(* A double is modelled as a fixed-point number: an integer count of       *)
(* 1/Scale units, every arithmetic result rounded to the nearest unit.     *)
(***************************************************************************)
EXTENDS Integers, Sequences, FiniteSets

\* ---------------------------------------------------------------- bounds
NumThreads == 2
MaxCalls == 2
Scale == 10000

Threads == 1..NumThreads

\* ------------------------------------------------------------- constants
NULL == 0
ADDR == 1
PiNum == 355
PiDen == 113
HalfTurn == 180
PJ_FWD == "PJ_FWD"
PJ_INV == "PJ_INV"

CtxIds == 1..NumThreads
PjIds == 1..NumThreads

\* ------------------------------------------------------ double arithmetic
\* n/d rounded to the nearest unit (d > 0)
Round(n, d) == (2 * n + d) \div (2 * d)

\* x * M_PI / 180.0 : the product is rounded, then the quotient
DegToRad(x) == Round(Round(x * PiNum, PiDen), HalfTurn)

\* x * 180.0 / M_PI : the product is exact in fixed point, the quotient rounded
RadToDeg(x) == Round(x * HalfTurn * PiDen, PiNum)

Abs(x) == IF x < 0 THEN -x ELSE x

\* ---------------------------------------------------------- value types
\* EPSG9705 { lat, lon, alt }
EPSG9705(lat, lon, alt) == [lat |-> lat, lon |-> lon, alt |-> alt]

\* EPSG4979 { lat, lon, alt }
EPSG4979(lat, lon, alt) == [lat |-> lat, lon |-> lon, alt |-> alt]

\* proj_coord(x, y, z, t): PJ_COORD read as lpzt = (lam, phi, z, t)
proj_coord(x, y, z, t) == [lam |-> x, phi |-> y, z |-> z, t |-> t]

NoCoord == proj_coord(0, 0, 0, -1)

\* the caller's input structs: (lat, lon, alt) in degrees, degrees, metres
Inputs ==
    { EPSG9705(41 * Scale, -74 * Scale, 0),
      EPSG9705(-90 * Scale, 180 * Scale, 12 * Scale) }

\* the caller's input struct while no call reads it
NoInput == EPSG9705(0, 0, 0)

\* what the caller's output struct holds when a call begins
OutputBefore == EPSG4979(7 * Scale, 7 * Scale, 7 * Scale)

\* ---------------------------------------------------------------- engine
\* the geoid undulation N the engine interpolates at (lam, phi), in metres
Undulation(c) == IF c.phi < 0 THEN -31 * Scale ELSE 17 * Scale

\* the error codes a faulting transform leaves in the error indicator
ErrCodes == { 2052 }

\* the vertical-only transformation EPSG:9705 -> EPSG:4979 on radian angles:
\* forward adds the undulation to the height, inverse subtracts it
ProjTrans(dir, c) ==
    IF dir = PJ_FWD THEN [c EXCEPT !.z = c.z + Undulation(c)]
    ELSE IF dir = PJ_INV THEN [c EXCEPT !.z = c.z - Undulation(c)]
    ELSE c

VARIABLES
    pc,         \* pc[t]: the statement thread t is at
    input,      \* input[t]: the input pointer of the call (NULL or ADDR)
    output,     \* output[t]: the output pointer of the call (NULL or ADDR)
    inMem,      \* inMem[t]: the caller's EPSG9705 struct
    outMem,     \* outMem[t]: the caller's EPSG4979 struct
    ctx,        \* ctx[t]: local PJ_CONTEXT *ctx
    P,          \* P[t]: local PJ *P
    c_in,       \* c_in[t]: local PJ_COORD c_in
    c_out,      \* c_out[t]: local PJ_COORD c_out
    ret,        \* ret[t]: the value returned
    ctxTab,     \* the engine's contexts
    pjTab,      \* the engine's transformations
    calls,      \* calls[t]: the engine calls made so far by the current call
    derefs,     \* derefs[t]: which pointers the current call has dereferenced
    ncalls,     \* how many calls the callers have started
    prev        \* the status of the call that returned last (0 before any)

vars == << pc, input, output, inMem, outMem, ctx, P, c_in, c_out, ret,
           ctxTab, pjTab, calls, derefs, ncalls, prev >>

locals == << ctx, P, c_in, c_out >>
args == << input, output, inMem >>
engine == << ctxTab, pjTab >>
history == << ncalls, prev >>

\* ------------------------------------------------------- engine helpers
DeadCtx == [live |-> FALSE, owner |-> NULL]
DeadPj == [live |-> FALSE, owner |-> NULL, ctx |-> NULL, errno |-> 0,
           src |-> "", dst |-> ""]

CtxLive(h) == h \in CtxIds /\ ctxTab[h].live
PjLive(p) == p \in PjIds /\ pjTab[p].live /\ CtxLive(pjTab[p].ctx)

CtxMine(t, h) == h \in CtxIds /\ ctxTab[h].owner = t
PjMine(t, p) == p \in PjIds /\ pjTab[p].owner = t

\* the handles a creation by thread t may return: NULL, or a fresh object.
\* The allocator serves each thread from its own arena, so the fresh object
\* of thread t is slot t, reused once it has been released.
NewCtx(t) == {NULL} \cup (IF ctxTab[t].live THEN {} ELSE {t})
NewPj(t) == {NULL} \cup (IF pjTab[t].live THEN {} ELSE {t})

\* one engine call as the call log records it
Entry(op, h, live, mine, res) ==
    [op |-> op, h |-> h, live |-> live, mine |-> mine, res |-> res]

\* a proj_trans call: also its direction, its argument and its result
TransEntry(h, live, mine, res, dir, arg, out) ==
    [op |-> "proj_trans", h |-> h, live |-> live, mine |-> mine, res |-> res,
     dir |-> dir, arg |-> arg, out |-> out]

Log(t, e) == calls' = [calls EXCEPT ![t] = Append(@, e)]

\* proj_context_destroy(h)
ContextDestroy(t, h) ==
    /\ ctxTab' = IF CtxLive(h) THEN [ctxTab EXCEPT ![h] = DeadCtx] ELSE ctxTab
    /\ Log(t, Entry("proj_context_destroy", h, CtxLive(h), CtxMine(t, h), 0))

\* proj_destroy(p)
Destroy(t, p) ==
    /\ pjTab' = IF p \in PjIds /\ pjTab[p].live
                THEN [pjTab EXCEPT ![p] = DeadPj] ELSE pjTab
    /\ Log(t, Entry("proj_destroy", p, PjLive(p), PjMine(t, p), 0))

Done(t, status) ==
    /\ ret' = [ret EXCEPT ![t] = status]
    /\ pc' = [pc EXCEPT ![t] = "done"]

Goto(t, label) ==
    /\ pc' = [pc EXCEPT ![t] = label]
    /\ UNCHANGED ret

\* ------------------------------------------------------------------ Init
Init ==
    /\ pc = [t \in Threads |-> "idle"]
    /\ input = [t \in Threads |-> NULL]
    /\ output = [t \in Threads |-> NULL]
    /\ inMem = [t \in Threads |-> NoInput]
    /\ outMem = [t \in Threads |-> OutputBefore]
    /\ ctx = [t \in Threads |-> NULL]
    /\ P = [t \in Threads |-> NULL]
    /\ c_in = [t \in Threads |-> NoCoord]
    /\ c_out = [t \in Threads |-> NoCoord]
    /\ ret = [t \in Threads |-> 0]
    /\ ctxTab = [h \in CtxIds |-> DeadCtx]
    /\ pjTab = [p \in PjIds |-> DeadPj]
    /\ calls = [t \in Threads |-> << >>]
    /\ derefs = [t \in Threads |-> {}]
    /\ ncalls = 0
    /\ prev = 0

\* --------------------------------------------------------------- actions
\* a caller thread enters epsg4979_from_epsg9705(input, output)
Call(t) ==
    /\ pc[t] = "idle"
    /\ ncalls < MaxCalls
    /\ ncalls' = ncalls + 1
    /\ \E i \in {NULL, ADDR}, o \in {NULL, ADDR}, v \in Inputs :
        /\ input' = [input EXCEPT ![t] = i]
        /\ output' = [output EXCEPT ![t] = o]
        /\ inMem' = [inMem EXCEPT ![t] = IF i = NULL THEN NoInput ELSE v]
    /\ outMem' = [outMem EXCEPT ![t] = OutputBefore]
    /\ Goto(t, "L34")
    /\ UNCHANGED << locals, engine, calls, derefs, prev >>

\* mutant: the test rejects only when both pointers are null
NullCheckBoth(t) ==
    /\ pc[t] = "L34"
    /\ IF input[t] = NULL /\ output[t] = NULL
       THEN Done(t, -1)
       ELSE Goto(t, "L36")
    /\ UNCHANGED << args, outMem, locals, engine, calls, derefs, history >>

\* if (!input || !output) return -1;
NullCheck(t) ==
    /\ pc[t] = "L34"
    /\ IF input[t] = NULL \/ output[t] = NULL
       THEN Done(t, -1)
       ELSE Goto(t, "L36")
    /\ UNCHANGED << args, outMem, locals, engine, calls, derefs, history >>

\* mutant: the context is cached and shared, a live one is reused
ContextCreateShared(t) ==
    /\ pc[t] = "L36"
    /\ \E h \in IF \E k \in CtxIds : ctxTab[k].live
                THEN {k \in CtxIds : ctxTab[k].live} ELSE NewCtx(t) :
        /\ ctx' = [ctx EXCEPT ![t] = h]
        /\ ctxTab' = IF h = NULL \/ ctxTab[h].live THEN ctxTab
                     ELSE [ctxTab EXCEPT ![h] = [live |-> TRUE, owner |-> t]]
        /\ Log(t, Entry("proj_context_create", h, TRUE, TRUE, h))
        /\ IF h = NULL THEN Done(t, -2) ELSE Goto(t, "L40")
    /\ UNCHANGED << args, outMem, P, c_in, c_out, pjTab, derefs, history >>

\* PJ_CONTEXT *ctx = proj_context_create(); if (!ctx) return -2;
ContextCreate(t) ==
    /\ pc[t] = "L36"
    /\ \E h \in NewCtx(t) :
        /\ ctx' = [ctx EXCEPT ![t] = h]
        /\ ctxTab' = IF h = NULL THEN ctxTab
                     ELSE [ctxTab EXCEPT ![h] = [live |-> TRUE, owner |-> t]]
        /\ Log(t, Entry("proj_context_create", h, TRUE, TRUE, h))
        /\ IF h = NULL THEN Done(t, -2) ELSE Goto(t, "L40")
    /\ UNCHANGED << args, outMem, P, c_in, c_out, pjTab, derefs, history >>

\* mutant: a failed resolution jumps to the cleanup that destroys P as well
CreateCrsToCrsGotoCleanup(t) ==
    /\ pc[t] = "L40"
    /\ \E p \in NewPj(t) :
        /\ P' = [P EXCEPT ![t] = p]
        /\ pjTab' = IF p = NULL THEN pjTab
                    ELSE [pjTab EXCEPT ![p] = [live |-> TRUE, owner |-> t,
                                               ctx |-> ctx[t], errno |-> 0,
                                               src |-> "EPSG:9705",
                                               dst |-> "EPSG:4979"]]
        /\ Log(t, Entry("proj_create_crs_to_crs", ctx[t], CtxLive(ctx[t]),
                        CtxMine(t, ctx[t]), p))
        /\ IF p = NULL THEN Goto(t, "L57") ELSE Goto(t, "L47")
    /\ UNCHANGED << args, outMem, ctx, c_in, c_out, ctxTab, derefs, history >>

\* PJ *P = proj_create_crs_to_crs(ctx, "EPSG:9705", "EPSG:4979", NULL); if (!P) ...
CreateCrsToCrs(t) ==
    /\ pc[t] = "L40"
    /\ \E p \in NewPj(t) :
        /\ P' = [P EXCEPT ![t] = p]
        /\ pjTab' = IF p = NULL THEN pjTab
                    ELSE [pjTab EXCEPT ![p] = [live |-> TRUE, owner |-> t,
                                               ctx |-> ctx[t], errno |-> 0,
                                               src |-> "EPSG:9705",
                                               dst |-> "EPSG:4979"]]
        /\ Log(t, Entry("proj_create_crs_to_crs", ctx[t], CtxLive(ctx[t]),
                        CtxMine(t, ctx[t]), p))
        /\ IF p = NULL THEN Goto(t, "L42") ELSE Goto(t, "L47")
    /\ UNCHANGED << args, outMem, ctx, c_in, c_out, ctxTab, derefs, history >>

\* mutant: the failed resolution returns without releasing the context
ResolveFailedLeak(t) ==
    /\ pc[t] = "L42"
    /\ Done(t, -3)
    /\ UNCHANGED << args, outMem, locals, engine, calls, derefs, history >>

\* mutant: the failed resolution reports the context-creation status
ResolveFailedWrongStatus(t) ==
    /\ pc[t] = "L42"
    /\ ContextDestroy(t, ctx[t])
    /\ Done(t, -2)
    /\ UNCHANGED << args, outMem, locals, pjTab, derefs, history >>

\* proj_context_destroy(ctx); return -3;
ResolveFailed(t) ==
    /\ pc[t] = "L42"
    /\ ContextDestroy(t, ctx[t])
    /\ Done(t, -3)
    /\ UNCHANGED << args, outMem, locals, pjTab, derefs, history >>

\* mutant: the coordinate is built latitude first
BuildCoordLatFirst(t) ==
    /\ pc[t] = "L47"
    /\ LET lat_rad == DegToRad(inMem[t].lat)
           lon_rad == DegToRad(inMem[t].lon)
       IN c_in' = [c_in EXCEPT ![t] = proj_coord(lat_rad, lon_rad, inMem[t].alt, 0)]
    /\ derefs' = [derefs EXCEPT ![t] = @ \cup {"input"}]
    /\ Goto(t, "L54")
    /\ UNCHANGED << args, outMem, ctx, P, c_out, engine, calls, history >>

\* lat_rad, lon_rad; PJ_COORD c_in = proj_coord(lon_rad, lat_rad, input->alt, 0);
BuildCoord(t) ==
    /\ pc[t] = "L47"
    /\ LET lat_rad == DegToRad(inMem[t].lat)
           lon_rad == DegToRad(inMem[t].lon)
       IN c_in' = [c_in EXCEPT ![t] = proj_coord(lon_rad, lat_rad, inMem[t].alt, 0)]
    /\ derefs' = [derefs EXCEPT ![t] = @ \cup {"input"}]
    /\ Goto(t, "L54")
    /\ UNCHANGED << args, outMem, ctx, P, c_out, engine, calls, history >>

\* PJ_COORD c_out = proj_trans(P, PJ_FWD, c_in);
Trans(t) ==
    /\ pc[t] = "L54"
    /\ \E e \in {0} \cup ErrCodes :
        LET r == ProjTrans(PJ_FWD, c_in[t])
            p == P[t]
        IN /\ c_out' = [c_out EXCEPT ![t] = r]
           /\ pjTab' = IF p \in PjIds /\ e # 0
                       THEN [pjTab EXCEPT ![p].errno = e] ELSE pjTab
           /\ Log(t, TransEntry(p, PjLive(p), PjMine(t, p),
                                IF e # 0 \/ p \notin PjIds THEN e ELSE pjTab[p].errno,
                                PJ_FWD, c_in[t], r))
    /\ Goto(t, "L56")
    /\ UNCHANGED << args, outMem, ctx, P, c_in, ctxTab, derefs, history >>

\* mutant: the output is written before the error indicator is looked at
ErrnoCheckAfterWrite(t) ==
    /\ pc[t] = "L56"
    /\ outMem' = [outMem EXCEPT ![t] =
                    EPSG4979(RadToDeg(c_out[t].phi), RadToDeg(c_out[t].lam),
                             c_out[t].z)]
    /\ derefs' = [derefs EXCEPT ![t] = @ \cup {"output"}]
    /\ LET p == P[t]
           e == IF p \in PjIds THEN pjTab[p].errno ELSE 0
       IN /\ Log(t, Entry("proj_errno", p, PjLive(p), PjMine(t, p), e))
          /\ IF e # 0 THEN Goto(t, "L57") ELSE Goto(t, "L63")
    /\ UNCHANGED << args, locals, engine, history >>

\* mutant: the error indicator is kept in a static that a failed call leaves set
ErrnoCheckSticky(t) ==
    /\ pc[t] = "L56"
    /\ LET p == P[t]
           e == IF prev = -4 THEN prev
                ELSE IF p \in PjIds THEN pjTab[p].errno ELSE 0
       IN /\ Log(t, Entry("proj_errno", p, PjLive(p), PjMine(t, p), e))
          /\ IF e # 0 THEN Goto(t, "L57") ELSE Goto(t, "L63")
    /\ UNCHANGED << args, outMem, locals, engine, derefs, history >>

\* if (proj_errno(P) != 0) ...
ErrnoCheck(t) ==
    /\ pc[t] = "L56"
    /\ LET p == P[t]
           e == IF p \in PjIds THEN pjTab[p].errno ELSE 0
       IN /\ Log(t, Entry("proj_errno", p, PjLive(p), PjMine(t, p), e))
          /\ IF e # 0 THEN Goto(t, "L57") ELSE Goto(t, "L63")
    /\ UNCHANGED << args, outMem, locals, engine, derefs, history >>

\* proj_destroy(P);   (transform failed)
ApplyFailedDestroy(t) ==
    /\ pc[t] = "L57"
    /\ Destroy(t, P[t])
    /\ Goto(t, "L58")
    /\ UNCHANGED << args, outMem, locals, ctxTab, derefs, history >>

\* proj_context_destroy(ctx); return -4;
ApplyFailedContextDestroy(t) ==
    /\ pc[t] = "L58"
    /\ ContextDestroy(t, ctx[t])
    /\ Done(t, -4)
    /\ UNCHANGED << args, outMem, locals, pjTab, derefs, history >>

\* mutant: latitude is read from lam and longitude from phi
WriteOutputSwapped(t) ==
    /\ pc[t] = "L63"
    /\ outMem' = [outMem EXCEPT ![t] =
                    EPSG4979(RadToDeg(c_out[t].lam), RadToDeg(c_out[t].phi),
                             c_out[t].z)]
    /\ derefs' = [derefs EXCEPT ![t] = @ \cup {"output"}]
    /\ Goto(t, "L68")
    /\ UNCHANGED << args, locals, engine, calls, history >>

\* output->lat = phi * 180.0 / M_PI; output->lon = lam * 180.0 / M_PI; output->alt = z;
WriteOutput(t) ==
    /\ pc[t] = "L63"
    /\ outMem' = [outMem EXCEPT ![t] =
                    EPSG4979(RadToDeg(c_out[t].phi), RadToDeg(c_out[t].lam),
                             c_out[t].z)]
    /\ derefs' = [derefs EXCEPT ![t] = @ \cup {"output"}]
    /\ Goto(t, "L68")
    /\ UNCHANGED << args, locals, engine, calls, history >>

\* mutant: the clean-up releases the context where it should release P
CleanupContextFirst(t) ==
    /\ pc[t] = "L68"
    /\ ContextDestroy(t, ctx[t])
    /\ Goto(t, "L69")
    /\ UNCHANGED << args, outMem, locals, pjTab, derefs, history >>

\* proj_destroy(P);   (clean up)
CleanupDestroy(t) ==
    /\ pc[t] = "L68"
    /\ Destroy(t, P[t])
    /\ Goto(t, "L69")
    /\ UNCHANGED << args, outMem, locals, ctxTab, derefs, history >>

\* proj_context_destroy(ctx); return 0;
CleanupContextDestroy(t) ==
    /\ pc[t] = "L69"
    /\ ContextDestroy(t, ctx[t])
    /\ Done(t, 0)
    /\ UNCHANGED << args, outMem, locals, pjTab, derefs, history >>

\* the call returns to the caller; the locals go out of scope
Return(t) ==
    /\ pc[t] = "done"
    /\ prev' = ret[t]
    /\ input' = [input EXCEPT ![t] = NULL]
    /\ output' = [output EXCEPT ![t] = NULL]
    /\ inMem' = [inMem EXCEPT ![t] = NoInput]
    /\ outMem' = [outMem EXCEPT ![t] = OutputBefore]
    /\ calls' = [calls EXCEPT ![t] = << >>]
    /\ derefs' = [derefs EXCEPT ![t] = {}]
    /\ ctx' = [ctx EXCEPT ![t] = NULL]
    /\ P' = [P EXCEPT ![t] = NULL]
    /\ c_in' = [c_in EXCEPT ![t] = NoCoord]
    /\ c_out' = [c_out EXCEPT ![t] = NoCoord]
    /\ pc' = [pc EXCEPT ![t] = "idle"]
    /\ ret' = [ret EXCEPT ![t] = 0]
    /\ UNCHANGED << engine, ncalls >>

Next ==
    \E t \in Threads :
        \/ Call(t)
        \/ NullCheck(t)
        \/ ContextCreate(t)
        \/ CreateCrsToCrs(t)
        \/ ResolveFailed(t)
        \/ BuildCoord(t)
        \/ Trans(t)
        \/ ErrnoCheck(t)
        \/ ApplyFailedDestroy(t)
        \/ ApplyFailedContextDestroy(t)
        \/ WriteOutput(t)
        \/ CleanupDestroy(t)
        \/ CleanupContextDestroy(t)
        \/ Return(t)

Spec == Init /\ [][Next]_vars

\* ================================================================ claims
InCall(t) == pc[t] # "idle"
AtDone(t) == pc[t] = "done"
NullArg(t) == input[t] = NULL \/ output[t] = NULL

Idx(t) == DOMAIN calls[t]
Ops(t) == [i \in Idx(t) |-> calls[t][i].op]
Count(t, op) == Cardinality({i \in Idx(t) : calls[t][i].op = op})

\* the engine outcomes of the current call, read off its call log
CtxFail(t) == \E i \in Idx(t) :
    calls[t][i].op = "proj_context_create" /\ calls[t][i].res = NULL
CtxOk(t) == \E i \in Idx(t) :
    calls[t][i].op = "proj_context_create" /\ calls[t][i].res # NULL
PjFail(t) == \E i \in Idx(t) :
    calls[t][i].op = "proj_create_crs_to_crs" /\ calls[t][i].res = NULL
PjOk(t) == \E i \in Idx(t) :
    calls[t][i].op = "proj_create_crs_to_crs" /\ calls[t][i].res # NULL
TransErr(t) == \E i \in Idx(t) :
    calls[t][i].op = "proj_trans" /\ calls[t][i].res # 0
TransOk(t) == \E i \in Idx(t) :
    calls[t][i].op = "proj_trans" /\ calls[t][i].res = 0

\* the coordinate the entry point owes the engine for an input struct
CoordOf(in) == proj_coord(DegToRad(in.lon), DegToRad(in.lat), in.alt, 0)

\* the output the entry point owes the caller for an input struct
Expected(in) ==
    EPSG4979(RadToDeg(DegToRad(in.lat)), RadToDeg(DegToRad(in.lon)),
             in.alt + Undulation(CoordOf(in)))

\* the output struct built from an engine result
FromResult(r) == EPSG4979(RadToDeg(r.phi), RadToDeg(r.lam), r.z)

\* half a radian unit expressed in degree units, plus the two roundings
RoundTripTol == (HalfTurn * PiDen) \div (2 * PiNum) + 2

AfterApply == {"L56", "L57", "L58", "L63", "L68", "L69"}

\* C1: a call with a null input or a null output pointer returns -1 before any
\* engine operation: it makes no engine call, creates no context and no
\* transformation, and neither reads nor writes through either pointer.
C1_NullRejected ==
    \A t \in Threads :
        InCall(t) /\ NullArg(t) =>
            /\ pc[t] \in {"L34", "done"}
            /\ calls[t] = << >>
            /\ derefs[t] = {}
            /\ outMem[t] = OutputBefore
            /\ ctx[t] = NULL /\ P[t] = NULL
            /\ \A h \in CtxIds : ctxTab[h].owner # t
            /\ \A p \in PjIds : pjTab[p].owner # t
            /\ AtDone(t) => ret[t] = -1

C1_Witness ==
    \E t \in Threads :
        AtDone(t) /\ input[t] = NULL /\ output[t] # NULL /\ ret[t] = -1

\* C2: the status is decided by the first step that fails: -1 iff an argument
\* is null, -2 iff context creation fails, -3 iff the context was created and
\* resolution fails, -4 iff the transformation was resolved and the error
\* indicator is set after the transform, 0 iff nothing fails; and the engine
\* calls made are exactly those up to the failing step plus the releases.
C2_StatusByFirstFailure ==
    \A t \in Threads :
        AtDone(t) =>
            /\ ret[t] \in {0, -1, -2, -3, -4}
            /\ ret[t] = -1 <=> NullArg(t)
            /\ ret[t] = -2 <=> ~NullArg(t) /\ CtxFail(t)
            /\ ret[t] = -3 <=> CtxOk(t) /\ PjFail(t)
            /\ ret[t] = -4 <=> PjOk(t) /\ TransErr(t)
            /\ ret[t] = 0 <=> ~NullArg(t) /\ CtxOk(t) /\ PjOk(t) /\ TransOk(t)
            /\ ret[t] = -1 => Ops(t) = << >>
            /\ ret[t] = -2 => Ops(t) = << "proj_context_create" >>
            /\ ret[t] = -3 => Ops(t) = << "proj_context_create",
                                         "proj_create_crs_to_crs",
                                         "proj_context_destroy" >>
            /\ ret[t] \in {0, -4} => Ops(t) = << "proj_context_create",
                                                "proj_create_crs_to_crs",
                                                "proj_trans", "proj_errno",
                                                "proj_destroy",
                                                "proj_context_destroy" >>
            /\ ret[t] # 0 => "output" \notin derefs[t]
            /\ ret[t] \in {-1, -2, -3} => "input" \notin derefs[t]

C2_Witness ==
    \E t1, t2 \in Threads :
        /\ AtDone(t1) /\ ret[t1] = -3
        /\ AtDone(t2) /\ ret[t2] = -4

\* C3: the output is written all or nothing: it keeps its value from before
\* the call until the error indicator has been found clear, a non-zero return
\* leaves it unchanged, and a return of 0 leaves in it the three fields of the
\* result of the one forward transform.
C3_AllOrNothing ==
    \A t \in Threads :
        /\ InCall(t) /\ pc[t] \notin {"L68", "L69", "done"} =>
               outMem[t] = OutputBefore
        /\ AtDone(t) /\ ret[t] # 0 => outMem[t] = OutputBefore
        /\ AtDone(t) /\ ret[t] = 0 =>
               /\ Count(t, "proj_trans") = 1
               /\ \A i \in Idx(t) : calls[t][i].op = "proj_trans" =>
                      /\ calls[t][i].res = 0
                      /\ outMem[t] = FromResult(calls[t][i].out)

C3_Witness ==
    \E t \in Threads :
        /\ AtDone(t) /\ ret[t] = -4
        /\ c_out[t] # NoCoord
        /\ FromResult(c_out[t]) # OutputBefore
        /\ outMem[t] = OutputBefore

\* C4: when a call returns, with any status, every context and transformation
\* it created has been released; with no call in progress the engine holds no
\* live context and no live transformation.
C4_NoLeak ==
    /\ \A t \in Threads :
           pc[t] \in {"done", "idle"} =>
               /\ \A h \in CtxIds : ~(ctxTab[h].live /\ ctxTab[h].owner = t)
               /\ \A p \in PjIds : ~(pjTab[p].live /\ pjTab[p].owner = t)
    /\ (\A t \in Threads : pc[t] = "idle") =>
           /\ \A h \in CtxIds : ~ctxTab[h].live
           /\ \A p \in PjIds : ~pjTab[p].live

C4_Witness ==
    \E t \in Threads :
        /\ AtDone(t) /\ ret[t] = -3
        /\ \A u \in Threads : u # t => pc[u] = "idle"
        /\ ncalls = MaxCalls

\* C5: acquire -> resolve -> apply -> release: resolution is called on a live
\* context this call created, the transform and the error query on a live
\* transformation this call resolved whose context is live, the context is
\* released last and after the transformation, and no live transformation is
\* ever bound to a released context.
C5_Ordering ==
    /\ \A t \in Threads : \A i \in Idx(t) :
        LET e == calls[t][i] IN
        /\ e.op = "proj_create_crs_to_crs" =>
               /\ e.h # NULL /\ e.live
               /\ \E j \in 1..(i - 1) :
                      calls[t][j].op = "proj_context_create" /\ calls[t][j].res = e.h
        /\ e.op \in {"proj_trans", "proj_errno"} =>
               /\ e.h # NULL /\ e.live
               /\ \E j \in 1..(i - 1) :
                      calls[t][j].op = "proj_create_crs_to_crs" /\ calls[t][j].res = e.h
        /\ e.op = "proj_context_destroy" =>
               /\ i = Len(calls[t])
               /\ PjOk(t) => \E j \in 1..(i - 1) : calls[t][j].op = "proj_destroy"
    /\ \A p \in PjIds : pjTab[p].live =>
           /\ CtxLive(pjTab[p].ctx)
           /\ ctxTab[pjTab[p].ctx].owner = pjTab[p].owner

C5_Witness ==
    \E t \in Threads :
        /\ AtDone(t) /\ ret[t] = 0
        /\ Count(t, "proj_destroy") = 1
        /\ Count(t, "proj_context_destroy") = 1

\* C6: the entry point keeps no state between calls: whatever the status of
\* the call that returned before, a call with both pointers given and every
\* engine step succeeding returns 0 with the output owed to its input, and two
\* calls with the same arguments and the same engine outcomes end alike.
C6_NoHistory ==
    /\ \A t \in Threads :
           AtDone(t) /\ ~NullArg(t) /\ CtxOk(t) /\ PjOk(t) /\ TransOk(t) =>
               ret[t] = 0 /\ outMem[t] = Expected(inMem[t])
    /\ \A t1, t2 \in Threads :
           /\ AtDone(t1) /\ AtDone(t2)
           /\ input[t1] = input[t2] /\ output[t1] = output[t2]
           /\ inMem[t1] = inMem[t2]
           /\ Ops(t1) = Ops(t2)
           /\ \A i \in Idx(t1) : (calls[t1][i].res = 0) = (calls[t2][i].res = 0)
           => ret[t1] = ret[t2] /\ outMem[t1] = outMem[t2]

C6_Witness ==
    \E t \in Threads :
        /\ prev = -4
        /\ AtDone(t) /\ ret[t] = 0
        /\ outMem[t] = Expected(inMem[t])
        /\ outMem[t] # OutputBefore

\* C7: on a return of 0 the output latitude and longitude are the input
\* latitude and longitude taken through degrees -> radians -> degrees, within
\* the round-trip tolerance of the input, never swapped; only the height
\* differs, by the undulation.
C7_HorizontalIdentity ==
    \A t \in Threads :
        AtDone(t) /\ ret[t] = 0 =>
            /\ outMem[t].lat = RadToDeg(DegToRad(inMem[t].lat))
            /\ outMem[t].lon = RadToDeg(DegToRad(inMem[t].lon))
            /\ Abs(outMem[t].lat - inMem[t].lat) <= RoundTripTol
            /\ Abs(outMem[t].lon - inMem[t].lon) <= RoundTripTol
            /\ outMem[t].alt = inMem[t].alt + Undulation(CoordOf(inMem[t]))

C7_Witness ==
    \E t \in Threads :
        /\ AtDone(t) /\ ret[t] = 0
        /\ Abs(inMem[t].lat - inMem[t].lon) > 2 * RoundTripTol
        /\ outMem[t].lat # inMem[t].lat
        /\ outMem[t].alt # inMem[t].alt

\* C8: a call that reaches the apply step invokes the engine's transform
\* exactly once, forward, on a transformation resolved from EPSG:9705 to
\* EPSG:4979, with the coordinate (longitude in radians, latitude in radians,
\* the input height as it is, 0); the inverse direction is never used.
C8_ForwardLonFirst ==
    \A t \in Threads :
        /\ Count(t, "proj_trans") <= 1
        /\ (pc[t] \in AfterApply \/ (AtDone(t) /\ ret[t] \in {0, -4})) =>
               Count(t, "proj_trans") = 1
        /\ \A i \in Idx(t) :
               calls[t][i].op = "proj_trans" =>
                      /\ calls[t][i].dir # PJ_INV
                      /\ calls[t][i].dir = PJ_FWD
                      /\ calls[t][i].arg = CoordOf(inMem[t])
                      /\ calls[t][i].arg.z = inMem[t].alt
                      /\ calls[t][i].arg.t = 0
        /\ pc[t] = "L56" /\ P[t] \in PjIds =>
               pjTab[P[t]].src = "EPSG:9705" /\ pjTab[P[t]].dst = "EPSG:4979"

C8_Witness ==
    \E t \in Threads :
        /\ pc[t] = "L56" /\ P[t] \in PjIds
        /\ Count(t, "proj_trans") = 1
        /\ c_in[t].lam # c_in[t].phi
        /\ c_in[t].z # 0

\* C9: a call creates at most one context and at most one transformation,
\* releases each handle it created exactly once by the time it returns, never
\* calls a release on a null or already released handle, and uses no handle
\* after releasing it.
C9_ReleaseOnce ==
    \A t \in Threads :
        /\ Count(t, "proj_context_create") <= 1
        /\ Count(t, "proj_create_crs_to_crs") <= 1
        /\ \A i \in Idx(t) :
            LET e == calls[t][i] IN
            /\ e.op \in {"proj_destroy", "proj_context_destroy"} =>
                   /\ e.h # NULL /\ e.live
                   /\ \A j \in Idx(t) :
                          calls[t][j].op = e.op /\ calls[t][j].h = e.h => j = i
                   /\ \A j \in Idx(t) :
                          j > i /\ calls[t][j].h = e.h =>
                              (e.op = "proj_destroy") #
                                  (calls[t][j].op \in {"proj_trans", "proj_errno",
                                                       "proj_destroy"})
            /\ AtDone(t) /\ e.op = "proj_context_create" /\ e.res # NULL =>
                   Cardinality({j \in Idx(t) :
                       calls[t][j].op = "proj_context_destroy"
                       /\ calls[t][j].h = e.res}) = 1
            /\ AtDone(t) /\ e.op = "proj_create_crs_to_crs" /\ e.res # NULL =>
                   Cardinality({j \in Idx(t) :
                       calls[t][j].op = "proj_destroy"
                       /\ calls[t][j].h = e.res}) = 1
        /\ AtDone(t) /\ ~PjOk(t) => Count(t, "proj_destroy") = 0
        /\ AtDone(t) /\ ~CtxOk(t) => Count(t, "proj_context_destroy") = 0

C9_Witness ==
    \E t \in Threads :
        /\ AtDone(t) /\ ret[t] = -4
        /\ Count(t, "proj_destroy") = 1
        /\ Count(t, "proj_context_destroy") = 1

\* C10: concurrent calls share no context and no transformation: every engine
\* call a thread makes is on a live handle that thread created, no two threads
\* hold the same handle, and each call ends with the status and output that
\* its own arguments and its own engine outcomes give when it runs alone.
HoldsCtx == {"L40", "L42", "L47", "L54", "L56", "L57", "L58", "L63", "L68", "L69"}
HoldsP == {"L47", "L54", "L56", "L57", "L63", "L68"}

SeqStatus(t) ==
    IF NullArg(t) THEN -1
    ELSE IF CtxFail(t) THEN -2
    ELSE IF PjFail(t) THEN -3
    ELSE IF TransErr(t) THEN -4
    ELSE 0

C10_NoSharing ==
    /\ \A t \in Threads : \A i \in Idx(t) : calls[t][i].mine /\ calls[t][i].live
    /\ \A t1, t2 \in Threads :
           t1 # t2 =>
               /\ pc[t1] \in HoldsCtx /\ pc[t2] \in HoldsCtx => ctx[t1] # ctx[t2]
               /\ pc[t1] \in HoldsP /\ pc[t2] \in HoldsP => P[t1] # P[t2]
    /\ \A t \in Threads :
           /\ pc[t] \in HoldsCtx => CtxLive(ctx[t]) /\ CtxMine(t, ctx[t])
           /\ pc[t] \in HoldsP => PjLive(P[t]) /\ PjMine(t, P[t])
           /\ AtDone(t) =>
                  /\ ret[t] = SeqStatus(t)
                  /\ outMem[t] = IF SeqStatus(t) = 0 THEN Expected(inMem[t])
                                 ELSE OutputBefore

C10_Witness ==
    \E t1, t2 \in Threads :
        /\ t1 # t2
        /\ pc[t1] = "L56" /\ pc[t2] = "L56"
        /\ PjLive(P[t1]) /\ PjLive(P[t2])
        /\ ctx[t1] # ctx[t2] /\ P[t1] # P[t2]

====
